---- MODULE Spec2Model ----
(***************************************************************************)
(* Model of wakadoctor (src/main.rs): one run of main(), a straight-line   *)
(* pipeline of eight checks over a Wakatime config file.  A step of the    *)
(* model is one check of main(); `pc` is the position in main().           *)
(*                                                                         *)
(* Strings the program only compares or splits are modelled by their       *)
(* parts: a URL string by <scheme, host, path>, a path by the sequence of  *)
(* its "/"-separated segments ("/api/v1" is <<"api","v1">>, "/api/v1/" is  *)
(* <<"api","v1","">>, "/" is <<"">>, the empty path is <<>>), an API key   *)
(* by a sequence of tokens ("waka_", runs of hex digits "h8" "h4" "h12",   *)
(* "-", "{", "}", "urn:uuid:", and non-hex words).                         *)
(***************************************************************************)
EXTENDS Integers, Sequences, FiniteSets, TLC

VARIABLES args, pc, config, url, host, out, ran, posts, net

vars == <<args, pc, config, url, host, out, ran, posts, net>>

(* ------------------------------ bounds --------------------------------- *)

MaxPathSegs == 3
MaxWakaPrefix == 2

(* ------------------------------ inputs --------------------------------- *)

Segments == {"api", "hackatime", "v1", ""}

Paths == UNION {[1..n -> Segments] : n \in 0..MaxPathSegs}

Schemes == {"https", "http", "unix", ""}

HostNames == {"hackatime.hackclub.com", "waka.hackclub.com",
              "api.wakatime.com", "example.com", ""}

\* http and https are "special" schemes of the URL standard: they need a host
\* and their path is never empty.
IsSpecial(scheme) == scheme \in {"https", "http"}

\* The api_url strings of the config file.  The empty string is the one with
\* no scheme, no host and no path.
ApiUrls ==
    {u \in [scheme : Schemes, host : HostNames, path : Paths] :
        /\ (u.scheme = "" /\ u.host = "") => u.path \in {<<>>, <<"api", "v1">>}
        /\ (IsSpecial(u.scheme) /\ u.host = "") => u.path = <<>>}

EmptyStr == [scheme |-> "", host |-> "", path |-> <<>>]

Hyphenated == <<"h8", "-", "h4", "-", "h4", "-", "h4", "-", "h12">>
Simple == <<"h8", "h4", "h4", "h4", "h12">>
Braced == <<"{">> \o Hyphenated \o <<"}">>
Urn == <<"urn:uuid:">> \o Hyphenated
NotAUuid == <<"not", "-", "a", "-", "uuid">>

KeyBodies == {<<>>, Hyphenated, Simple, Braced, Urn, NotAUuid}

RECURSIVE WakaPrefix(_)
WakaPrefix(n) == IF n = 0 THEN <<>> ELSE <<"waka_">> \o WakaPrefix(n - 1)

\* The api_key strings of the config file; <<>> is the empty string.
ApiKeys == {WakaPrefix(n) \o b : n \in 0..MaxWakaPrefix, b \in KeyBodies}

\* WakaSettings, restricted to the two fields main() reads.  A key absent from
\* the file deserialises to the empty string (#[serde(default)]).
WakaSettings == [api_url : ApiUrls, api_key : ApiKeys]

NoConfig == [api_url |-> EmptyStr, api_key |-> <<>>]

Args == [no_warn_default_waka : BOOLEAN, custom_server : BOOLEAN, offline : BOOLEAN]

WakaHost == {"Hackatime", "OldHackatime", "Wakatime", "Custom"}

Stages == {"read", "parse", "resolve", "classify", "path", "scheme", "key", "probe"}

(* ------------------------- library functions --------------------------- *)

\* url::Url::parse
UrlParse(s) ==
    IF s.scheme = "" THEN [ok |-> FALSE, url |-> EmptyStr]
    ELSE IF IsSpecial(s.scheme) /\ s.host = "" THEN [ok |-> FALSE, url |-> EmptyStr]
    ELSE [ok |-> TRUE,
          url |-> [scheme |-> s.scheme, host |-> s.host,
                   path |-> IF IsSpecial(s.scheme) /\ s.path = <<>>
                            THEN <<"">> ELSE s.path]]

HexDigits(tok) ==
    IF tok = "h8" THEN 8 ELSE IF tok = "h4" THEN 4 ELSE IF tok = "h12" THEN 12 ELSE -1

RECURSIVE HexLen(_)
HexLen(s) ==
    IF s = <<>> THEN 0
    ELSE IF HexDigits(Head(s)) < 0 \/ HexLen(Tail(s)) < 0 THEN -1
    ELSE HexDigits(Head(s)) + HexLen(Tail(s))

ParseHyphenated(s) ==
    /\ Len(s) = 9
    /\ \A i \in {2, 4, 6, 8} : s[i] = "-"
    /\ HexLen(<<s[1]>>) = 8
    /\ \A i \in {3, 5, 7} : HexLen(<<s[i]>>) = 4
    /\ HexLen(<<s[9]>>) = 12

\* uuid::Uuid::parse_str(..).is_ok(): 32 hex digits, or the hyphenated form,
\* bare, in braces, or after "urn:uuid:".
UuidParseOk(s) ==
    \/ HexLen(s) = 32
    \/ ParseHyphenated(s)
    \/ /\ Len(s) = 11
       /\ s[1] = "{"
       /\ s[11] = "}"
       /\ ParseHyphenated(SubSeq(s, 2, 10))
    \/ /\ Len(s) = 10
       /\ s[1] = "urn:uuid:"
       /\ ParseHyphenated(SubSeq(s, 2, 10))

\* str::starts_with("waka_")
StartsWithWaka(key) == Len(key) > 0 /\ key[1] = "waka_"

Replacen1_Keep(key) == key

\* str::replacen("waka_", "", 1): drops the first occurrence.
RECURSIVE Replacen1(_)
Replacen1(key) ==
    IF key = <<>> THEN <<>>
    ELSE IF Head(key) = "waka_" THEN Tail(key)
    ELSE <<Head(key)>> \o Replacen1(Tail(key))

\* The path of Url::join(rel) for a relative path `rel` without dot segments:
\* the last segment of the base path is replaced by `rel`.
Join(path, rel) ==
    (IF path = <<>> THEN <<>> ELSE SubSeq(path, 1, Len(path) - 1)) \o rel

(* ------------------------------ program -------------------------------- *)

Display_OldAsWaka(h) == IF h = "Hackatime" THEN "Hackatime" ELSE "Wakatime"

\* impl Display for WakaHost
Display(h) ==
    IF h \in {"Hackatime", "OldHackatime"} THEN "Hackatime" ELSE "Wakatime"

Line(stage, glyph, text, arg) ==
    [stage |-> stage, glyph |-> glyph, text |-> text, arg |-> arg]

NextStage(stage) ==
    CASE stage = "read" -> "parse"
      [] stage = "parse" -> "resolve"
      [] stage = "resolve" -> "classify"
      [] stage = "classify" -> "path"
      [] stage = "path" -> "scheme"
      [] stage = "scheme" -> "key"
      [] stage = "key" -> "probe"
      [] stage = "probe" -> "final"
      [] OTHER -> "done"

After_NoReturn(stage, ok) == NextStage(stage)

\* Where main() goes after a check: on, or `return`.
After(stage, ok) == IF ok THEN NextStage(stage) ELSE "done"

HostOf_CustomIsNull(h, a) ==
    CASE h = "hackatime.hackclub.com" -> "Hackatime"
      [] h = "waka.hackclub.com" -> "OldHackatime"
      [] h = "api.wakatime.com" -> "Wakatime"
      [] h = "" -> "None"
      [] OTHER -> IF a.custom_server THEN "Custom" ELSE "None"

\* The match on url.host_str() (None is the empty host).
HostOf(h, a) ==
    CASE h = "hackatime.hackclub.com" -> "Hackatime"
      [] h = "waka.hackclub.com" -> "OldHackatime"
      [] h = "api.wakatime.com" -> "Wakatime"
      [] h = "" -> "None"
      [] OTHER -> "Custom"

\* The line printed by the host match.
HostLine(h, a) ==
    CASE h = "hackatime.hackclub.com" ->
           <<Line("classify", "ok", "Wakatime API host is Hackatime host", <<>>)>>
      [] h = "waka.hackclub.com" ->
           <<Line("classify", "warn", "Wakatime API host is old Hackclub Wakatime host", <<>>)>>
      [] h = "api.wakatime.com" ->
           IF a.no_warn_default_waka
           THEN <<Line("classify", "ok", "Wakatime API host is default Wakatime host", <<>>)>>
           ELSE <<Line("classify", "warn", "Wakatime API host is default Wakatime host (psst)", <<>>)>>
      [] h = "" ->
           <<Line("classify", "fail", "Wakatime API URL has null host", <<>>)>>
      [] OTHER ->
           IF a.custom_server
           THEN <<Line("classify", "ok", "Wakatime API host is custom server host", <<>>)>>
           ELSE <<Line("classify", "warn", "Wakatime API host is custom server host or invalid host (psst)", <<>>)>>

PathCheck_NoUpstreamRule(h, path) ==
    IF h = "Hackatime" /\ path # <<"api", "hackatime", "v1">>
    THEN [ok |-> FALSE, lines |-> <<Line("path", "fail", "Hackatime API path should be /api/hackatime/v1, not", path)>>]
    ELSE IF h = "Hackatime"
    THEN [ok |-> TRUE, lines |-> <<Line("path", "ok", "Hackatime API path is correct.", <<>>)>>]
    ELSE [ok |-> TRUE, lines |-> <<>>]

PathCheck_AlwaysSays(h, path) ==
    CASE h = "Hackatime" ->
           IF path # <<"api", "hackatime", "v1">>
           THEN [ok |-> FALSE, lines |-> <<Line("path", "fail", "Hackatime API path should be /api/hackatime/v1, not", path)>>]
           ELSE [ok |-> TRUE, lines |-> <<Line("path", "ok", "Hackatime API path is correct.", <<>>)>>]
      [] h = "Wakatime" ->
           IF path # <<"api", "v1">>
           THEN [ok |-> FALSE, lines |-> <<Line("path", "fail", "Wakatime API path should be /api/v1, not", path)>>]
           ELSE [ok |-> TRUE, lines |-> <<Line("path", "ok", "Wakatime API path is correct.", <<>>)>>]
      [] OTHER -> [ok |-> TRUE, lines |-> <<Line("path", "ok", "Wakatime API path is correct.", <<>>)>>]

\* match host { ... } on url.path()
PathCheck(h, path) ==
    CASE h = "Hackatime" ->
           IF path # <<"api", "hackatime", "v1">>
           THEN [ok |-> FALSE, lines |-> <<Line("path", "fail", "Hackatime API path should be /api/hackatime/v1, not", path)>>]
           ELSE [ok |-> TRUE, lines |-> <<Line("path", "ok", "Hackatime API path is correct.", <<>>)>>]
      [] h = "Wakatime" ->
           IF path # <<"api", "v1">>
           THEN [ok |-> FALSE, lines |-> <<Line("path", "fail", "Wakatime API path should be /api/v1, not", path)>>]
           ELSE [ok |-> TRUE, lines |-> <<Line("path", "ok", "Wakatime API path is correct.", <<>>)>>]
      [] OTHER -> [ok |-> TRUE, lines |-> <<>>]

SchemeCheck_HttpIsUnknown(scheme) ==
    IF scheme # "https"
    THEN [ok |-> FALSE, lines |-> <<Line("scheme", "fail", "Wakatime API URL has unknown scheme", <<scheme>>)>>]
    ELSE [ok |-> TRUE, lines |-> <<Line("scheme", "ok", "Wakatime API URL is HTTPS", <<>>)>>]

\* if url.scheme() != "https" { ... }
SchemeCheck(scheme) ==
    IF scheme # "https"
    THEN IF scheme = "http"
         THEN [ok |-> FALSE, lines |-> <<Line("scheme", "fail", "Wakatime API URL is unsecured HTTP", <<>>)>>]
         ELSE [ok |-> FALSE, lines |-> <<Line("scheme", "fail", "Wakatime API URL has unknown scheme", <<scheme>>)>>]
    ELSE [ok |-> TRUE, lines |-> <<Line("scheme", "ok", "Wakatime API URL is HTTPS", <<>>)>>]

\* if config.settings.api_key.is_empty() { ... } else if ... else if ...
KeyCheck(h, key) ==
    IF key = <<>>
    THEN [ok |-> FALSE, lines |-> <<Line("key", "fail", "No API key in file", <<>>)>>]
    ELSE IF h = "Hackatime"
    THEN IF UuidParseOk(key)
         THEN [ok |-> TRUE, lines |-> <<Line("key", "ok", "Hackatime API key is in valid format", <<>>)>>]
         ELSE [ok |-> FALSE, lines |-> <<Line("key", "fail", "Hackatime API key is NOT in valid format", <<>>)>>]
    ELSE IF h = "Wakatime"
    THEN IF StartsWithWaka(key)
         THEN IF UuidParseOk(Replacen1(key))
              THEN [ok |-> TRUE, lines |-> <<Line("key", "ok", "Wakatime API key is in valid format", <<>>)>>]
              ELSE [ok |-> FALSE, lines |-> <<Line("key", "fail", "Wakatime API key is NOT in valid format", <<>>)>>]
         ELSE [ok |-> FALSE, lines |-> <<Line("key", "fail", "Wakatime API key is NOT in valid format", <<>>)>>]
    ELSE [ok |-> TRUE, lines |-> <<>>]

\* What send().await can come back with.
Responses == {"status2xx", "statusNon2xx"}
Errors == {"timeout", "transport"}

ProbeResult_StatusChecked(h, r) ==
    IF r = "status2xx"
    THEN [ok |-> TRUE, lines |-> <<Line("probe", "ok", "Got successful status code! is configured correctly.", <<Display(h)>>)>>]
    ELSE IF r = "timeout"
    THEN [ok |-> FALSE, lines |-> <<Line("probe", "fail", "Server timeout after 10 seconds. is NOT configured correctly.", <<Display(h)>>)>>]
    ELSE [ok |-> FALSE, lines |-> <<Line("probe", "fail", "Got error status code. is NOT configured correctly.", <<Display(h)>>)>>]

\* match ... .send().await { Ok(_) => ..., Err(e) => ... }
ProbeResult(h, r) ==
    IF r \in Responses
    THEN [ok |-> TRUE, lines |-> <<Line("probe", "ok", "Got successful status code! is configured correctly.", <<Display(h)>>)>>]
    ELSE IF r = "timeout"
    THEN [ok |-> FALSE, lines |-> <<Line("probe", "fail", "Server timeout after 10 seconds. is NOT configured correctly.", <<Display(h)>>)>>]
    ELSE [ok |-> FALSE, lines |-> <<Line("probe", "fail", "Got error status code. is NOT configured correctly.", <<Display(h)>>)>>]

Heartbeats == <<"users", "current", "heartbeats">>

(* ------------------------------ actions -------------------------------- *)

\* Args::parse(); nothing has run yet.
Init ==
    /\ args \in Args
    /\ pc = "read"
    /\ config = NoConfig
    /\ url = EmptyStr
    /\ host = "None"
    /\ out = <<>>
    /\ ran = <<>>
    /\ posts = <<>>
    /\ net = "none"

\* std::fs::read_to_string(args.config_location)
ReadConfig ==
    /\ pc = "read"
    /\ \E readable \in BOOLEAN :
        /\ out' = Append(out,
                    IF readable
                    THEN Line("read", "ok", "Successfully read Wakatime config", <<>>)
                    ELSE Line("read", "fail", "Cannot read Wakatime config with error", <<>>))
        /\ pc' = After("read", readable)
    /\ ran' = Append(ran, "read")
    /\ UNCHANGED <<args, config, url, host, posts, net>>

\* serde_ini::from_str(..)
ParseConfig ==
    /\ pc = "parse"
    /\ \/ /\ out' = Append(out, Line("parse", "fail", "Cannot parse Wakatime config with error", <<>>))
          /\ pc' = After("parse", FALSE)
          /\ UNCHANGED config
       \/ \E settings \in WakaSettings :
          /\ out' = Append(out, Line("parse", "ok", "Successfully parsed Wakatime config", <<>>))
          /\ pc' = After("parse", TRUE)
          /\ config' = settings
    /\ ran' = Append(ran, "parse")
    /\ UNCHANGED <<args, url, host, posts, net>>

DefaultUrl == [scheme |-> "https", host |-> "api.wakatime.com", path |-> <<"api", "v1">>]

\* let url = if config.settings.api_url.is_empty() { ... } else { ... }
ResolveUrl ==
    /\ pc = "resolve"
    /\ IF config.api_url = EmptyStr
       THEN /\ out' = Append(out, Line("resolve", "warn", "Wakatime API URL is not specified - assuming default (https://api.wakatime.com/api/v1)", <<>>))
            /\ url' = UrlParse(DefaultUrl).url
            /\ pc' = After("resolve", TRUE)
       ELSE LET r == UrlParse(config.api_url) IN
            IF r.ok
            THEN /\ out' = Append(out, Line("resolve", "ok", "Wakatime API URL is valid URL", <<>>))
                 /\ url' = r.url
                 /\ pc' = After("resolve", TRUE)
            ELSE /\ out' = Append(out, Line("resolve", "fail", "Wakatime API URL is not valid URL (failed parsing with error)", <<>>))
                 /\ url' = url
                 /\ pc' = After("resolve", FALSE)
    /\ ran' = Append(ran, "resolve")
    /\ UNCHANGED <<args, config, host, posts, net>>

\* let host = match url.host_str().unwrap_or_else(..) { ... }
ClassifyHost ==
    /\ pc = "classify"
    /\ LET h == HostOf(url.host, args) IN
        /\ host' = h
        /\ out' = out \o HostLine(url.host, args)
        /\ pc' = After("classify", h # "None")
    /\ ran' = Append(ran, "classify")
    /\ UNCHANGED <<args, config, url, posts, net>>

ValidatePath ==
    /\ pc = "path"
    /\ LET r == PathCheck(host, url.path) IN
        /\ out' = out \o r.lines
        /\ pc' = After("path", r.ok)
    /\ ran' = Append(ran, "path")
    /\ UNCHANGED <<args, config, url, host, posts, net>>

ValidateScheme ==
    /\ pc = "scheme"
    /\ LET r == SchemeCheck(url.scheme) IN
        /\ out' = out \o r.lines
        /\ pc' = After("scheme", r.ok)
    /\ ran' = Append(ran, "scheme")
    /\ UNCHANGED <<args, config, url, host, posts, net>>

ValidateKey ==
    /\ pc = "key"
    /\ LET r == KeyCheck(host, config.api_key) IN
        /\ out' = out \o r.lines
        /\ pc' = After("key", r.ok)
    /\ ran' = Append(ran, "key")
    /\ UNCHANGED <<args, config, url, host, posts, net>>

\* if args.offline { ... } else { match reqwest::Client::new().post(..)...send().await }
Probe ==
    /\ pc = "probe"
    /\ IF args.offline
       THEN /\ out' = Append(out, Line("probe", "warn", "Not attempting to perform online heartbeat check (--offline passed)", <<>>))
            /\ pc' = After("probe", TRUE)
            /\ UNCHANGED <<posts, net>>
       ELSE \E r \in Responses \cup Errors :
            /\ posts' = Append(posts, [scheme |-> url.scheme, host |-> url.host,
                                       path |-> Join(url.path, Heartbeats),
                                       bearer |-> config.api_key])
            /\ net' = r
            /\ out' = out \o ProbeResult(host, r).lines
            /\ pc' = After("probe", ProbeResult(host, r).ok)
    /\ ran' = Append(ran, "probe")
    /\ UNCHANGED <<args, config, url, host>>

\* println!("... {host} is configured correctly!")
Finish ==
    /\ pc = "final"
    /\ out' = Append(out, Line("final", "ok", "is configured correctly!", <<Display(host)>>))
    /\ pc' = "done"
    /\ UNCHANGED <<args, config, url, host, ran, posts, net>>

Next ==
    \/ ReadConfig
    \/ ParseConfig
    \/ ResolveUrl
    \/ ClassifyHost
    \/ ValidatePath
    \/ ValidateScheme
    \/ ValidateKey
    \/ Probe
    \/ Finish

Spec == Init /\ [][Next]_vars

(* ------------------------------ properties ----------------------------- *)

Range(f) == {f[i] : i \in DOMAIN f}

Reached(stage) == stage \in Range(ran)

LinesOf(stage) == {i \in DOMAIN out : out[i].stage = stage}

FailLines == {i \in DOMAIN out : out[i].glyph = "fail"}

HasText(text) == \E i \in DOMAIN out : out[i].text = text

Insecure == "Wakatime API URL is unsecured HTTP"

RequiredPath(h) ==
    IF h = "hackatime.hackclub.com" THEN <<"api", "hackatime", "v1">> ELSE <<"api", "v1">>

Enforced(h) == h \in {"hackatime.hackclub.com", "api.wakatime.com"}

\* C1: once a failure line is printed nothing more is printed and no further
\* stage runs; the overall success line is printed only when no stage failed.
C1_EarlyTermination ==
    /\ [][FailLines # {} => (out' = out /\ ran' = ran)]_vars
    /\ [](LinesOf("final") # {} => FailLines = {})
    /\ [](FailLines # {} => pc = "done" /\ FailLines = {Len(out)})

C1_Witness ==
    /\ pc = "done"
    /\ FailLines = {Len(out)}
    /\ out[Len(out)].stage = "scheme"
    /\ ~Reached("key")

\* C2 (as stated): every resolved URL with scheme http, whatever its host and
\* path, is rejected with the insecure-scheme line and with no other failure.
C2_HttpAlwaysInsecure ==
    (pc = "done" /\ url.scheme = "http") =>
        /\ HasText(Insecure)
        /\ \A i \in FailLines : out[i].text = Insecure

\* C2 (amended): a resolved http URL is rejected with the insecure-scheme line
\* exactly when it passes path validation; with host hackatime.hackclub.com or
\* api.wakatime.com and another path than the required one, it is rejected
\* with the path line and the scheme is never looked at.
C2_HttpInsecureAfterPath ==
    (pc = "done" /\ url.scheme = "http") =>
        IF Enforced(url.host) /\ url.path # RequiredPath(url.host)
        THEN /\ ~HasText(Insecure)
             /\ FailLines = LinesOf("path")
             /\ ~Reached("scheme")
        ELSE /\ HasText(Insecure)
             /\ \A i \in FailLines : out[i].text = Insecure
             /\ FailLines # {}

C2_Witness ==
    /\ pc = "done"
    /\ url.scheme = "http"
    /\ url.host = "hackatime.hackclub.com"
    /\ url.path = <<"api", "hackatime", "v1">>
    /\ HasText(Insecure)

\* C3: path validation passes iff the table says so: /api/hackatime/v1 for
\* hackatime.hackclub.com, /api/v1 for api.wakatime.com, any path for
\* waka.hackclub.com and for other hosts; a mismatch ends the run.
C3_PathTable ==
    Reached("path") =>
        LET passes == pc = "scheme" \/ Reached("scheme")
            table == CASE url.host = "hackatime.hackclub.com" -> url.path = <<"api", "hackatime", "v1">>
                       [] url.host = "api.wakatime.com" -> url.path = <<"api", "v1">>
                       [] OTHER -> TRUE
        IN /\ passes <=> table
           /\ ~passes => (pc = "done" /\ FailLines = LinesOf("path") /\ FailLines # {})

C3_Witness ==
    /\ Reached("path")
    /\ url.host = "api.wakatime.com"
    /\ url.path = <<"api", "hackatime", "v1">>
    /\ pc = "done"
    /\ LinesOf("path") # {}

\* C4: API key validation accepts the key iff it is not empty and, for
\* hackatime.hackclub.com, is a canonical 8-4-4-4-12 UUID; for api.wakatime.com,
\* is "waka_" followed by a canonical UUID; for the other hosts, anything.
C4_KeyRules ==
    Reached("key") =>
        LET accepted == pc = "probe" \/ Reached("probe")
            key == config.api_key
            rule == /\ key # <<>>
                    /\ CASE url.host = "hackatime.hackclub.com" -> ParseHyphenated(key)
                         [] url.host = "api.wakatime.com" ->
                              key[1] = "waka_" /\ ParseHyphenated(Tail(key))
                         [] OTHER -> TRUE
        IN accepted <=> rule

\* C5: a URL with a host is always classified, by the host alone, and goes on
\* to path validation whatever the flags; only a URL without a host stops
\* there; an empty api_url goes on as https://api.wakatime.com/api/v1,
\* classified Wakatime.
C5_ClassificationNeverAborts ==
    /\ (Reached("classify") /\ url.host # "") =>
          /\ host = CASE url.host = "hackatime.hackclub.com" -> "Hackatime"
                      [] url.host = "waka.hackclub.com" -> "OldHackatime"
                      [] url.host = "api.wakatime.com" -> "Wakatime"
                      [] OTHER -> "Custom"
          /\ pc = "path" \/ Reached("path")
          /\ Cardinality(LinesOf("classify")) = 1
          /\ \A i \in LinesOf("classify") : out[i].glyph \in {"ok", "warn"}
    /\ (Reached("classify") /\ url.host = "") => (pc = "done" /\ host = "None")
    /\ (Reached("resolve") /\ config.api_url = EmptyStr /\ LinesOf("parse") # {}) =>
          /\ url = [scheme |-> "https", host |-> "api.wakatime.com", path |-> <<"api", "v1">>]
          /\ \A i \in LinesOf("resolve") : out[i].glyph = "warn"
          /\ pc = "classify" \/ Reached("classify")
          /\ Reached("classify") => host = "Wakatime"

C5_Witness ==
    /\ Reached("classify")
    /\ url.host = "example.com"
    /\ ~args.custom_server
    /\ host = "Custom"
    /\ pc = "path"

PrintedName == out[Len(out)].arg[1]

\* C6 (as stated): the name in the overall success line identifies the
\* variant: no other variant prints the same name.
C6_NameIdentifiesVariant ==
    LinesOf("final") # {} =>
        \A v \in WakaHost : Display(v) = PrintedName => v = host

\* C6 (amended): the overall success line names the family of the variant:
\* "Hackatime" for hackatime.hackclub.com and waka.hackclub.com, "Wakatime"
\* for api.wakatime.com and for every other host.
C6_NameIsFamily ==
    LinesOf("final") # {} =>
        /\ LinesOf("final") = {Len(out)}
        /\ out[Len(out)].arg = <<PrintedName>>
        /\ PrintedName = IF url.host \in {"hackatime.hackclub.com", "waka.hackclub.com"}
                         THEN "Hackatime" ELSE "Wakatime"

C6_Witness ==
    /\ LinesOf("final") # {}
    /\ host = "OldHackatime"
    /\ PrintedName = "Hackatime"

\* C7 (as stated): every stage that ran printed exactly one line.
C7_ExactlyOneLine ==
    \A s \in Range(ran) : Cardinality(LinesOf(s)) = 1

\* C7 (amended): every stage that ran printed exactly one line, except that
\* for hosts other than hackatime.hackclub.com and api.wakatime.com path
\* validation prints nothing and key validation prints nothing for a
\* non-empty key.
C7_OneLineOrSilent ==
    \A s \in Range(ran) :
        Cardinality(LinesOf(s)) =
            IF \/ s = "path" /\ ~Enforced(url.host)
               \/ s = "key" /\ ~Enforced(url.host) /\ config.api_key # <<>>
            THEN 0 ELSE 1

C7_Witness ==
    /\ Reached("probe")
    /\ url.host = "waka.hackclub.com"
    /\ LinesOf("path") = {}
    /\ LinesOf("key") = {}
    /\ Cardinality(LinesOf("scheme")) = 1

UpstreamScenario ==
    /\ pc = "done"
    /\ LinesOf("parse") # {}
    /\ config.api_url = [scheme |-> "https", host |-> "api.wakatime.com", path |-> <<"api", "v1">>]
    /\ config.api_key = <<"waka_">> \o Hyphenated
    /\ args.offline

Glyphs == [i \in DOMAIN out |-> out[i].glyph]

\* C8 (as stated): in the upstream scenario with the probe skipped, every
\* line is a success line and the last one is the overall success line
\* naming "Wakatime".
C8_AllSuccess ==
    UpstreamScenario =>
        /\ \A i \in DOMAIN out : out[i].glyph = "ok"
        /\ out[Len(out)].stage = "final"
        /\ out[Len(out)].arg = <<"Wakatime">>

\* C8 (amended): in the upstream scenario with the probe skipped, no failure
\* line is printed; the host line is a warning unless --no-warn-default-waka
\* is passed, the skipped-probe line is a warning, every other line is a
\* success line, and the last one is the overall success line naming
\* "Wakatime".
C8_SuccessWithWarnings ==
    UpstreamScenario =>
        /\ Glyphs = <<"ok", "ok", "ok",
                      IF args.no_warn_default_waka THEN "ok" ELSE "warn",
                      "ok", "ok", "ok", "warn", "ok">>
        /\ [i \in DOMAIN out |-> out[i].stage] =
               <<"read", "parse", "resolve", "classify", "path", "scheme", "key", "probe", "final">>
        /\ out[Len(out)].arg = <<"Wakatime">>
        /\ posts = <<>>

C8_Witness ==
    /\ UpstreamScenario
    /\ args.no_warn_default_waka
    /\ out[Len(out)].stage = "final"

EarlierFailure == \E i \in FailLines : out[i].stage # "probe"

\* C9: at most one POST, none when --offline is passed or an earlier stage
\* failed, exactly one otherwise; any response, 2xx or not, gives the probe
\* success line and then the overall success line; a timeout or transport
\* error gives exactly one failure line and no overall success line.
C9_ProbeDiscipline ==
    /\ Len(posts) <= 1
    /\ (args.offline \/ EarlierFailure) => posts = <<>>
    /\ (pc = "done" /\ ~args.offline /\ ~EarlierFailure) => Len(posts) = 1
    /\ (posts = <<>>) <=> (net = "none")
    /\ (net \in Responses /\ pc = "done") =>
          /\ Len(out) >= 2
          /\ out[Len(out) - 1].stage = "probe"
          /\ out[Len(out) - 1].glyph = "ok"
          /\ out[Len(out)].stage = "final"
          /\ FailLines = {}
    /\ net \in Errors =>
          /\ pc = "done"
          /\ FailLines = {Len(out)}
          /\ out[Len(out)].stage = "probe"
          /\ LinesOf("final") = {}
          /\ (net = "timeout") <=>
                (out[Len(out)].text = "Server timeout after 10 seconds. is NOT configured correctly.")

C9_Witness ==
    /\ pc = "done"
    /\ net = "statusNon2xx"
    /\ Len(posts) = 1
    /\ out[Len(out)].stage = "final"

\* C10: the POST goes to the resolved URL's full path followed by
\* /users/current/heartbeats; no segment of the API path is dropped.
C10_ProbePath ==
    \A i \in DOMAIN posts :
        /\ posts[i].host = url.host
        /\ posts[i].path = url.path \o <<"users", "current", "heartbeats">>

====
